---- MODULE Spec2Model ----
(***************************************************************************)
(* atlaskit, atlas.py: probabilistic atlas construction with intra- and    *)
(* inter-observer similarity metrics.                                      *)
(*                                                                         *)
(* Representation.                                                         *)
(*  - A 3D boolean array is a record [shape, on]: its shape <<nx,ny,nz>>   *)
(*    and the set of voxels <<x,y,z>> (0-based, as numpy) that are True.   *)
(*  - A label volume is a record [zooms, shape, data], data a function     *)
(*    from voxels to label codes.                                          *)
(*  - A float that is a ratio of integers is a reduced fraction <<p,q>>;   *)
(*    a float that is a square root is the record [root |-> q], standing   *)
(*    for sqrt(q).  np.nan is 0/0 among the fractions and sqrt(-1) among   *)
(*    the roots.                                                           *)
(***************************************************************************)
EXTENDS Integers, Sequences, FiniteSets, TLC

VARIABLES
    pc,                 \* position in main() / in the similarity() harness
    err,                \* how the process ended: "none" while running
    label_key,          \* atlas.py:118  the key's rows <<[Index, Name], ...>>
    args_labels,        \* atlas.py:75   args.labels (<<>> when -l is absent)
    cpu_count,          \* mp.cpu_count() of the host
    n_listed,           \* entries of the sorted obs-* glob consumed so far
    obs_names,          \* atlas.py:125
    labels,             \* atlas.py:121  [observer][template] -> volume data
    labels_src,         \* for each entry of labels, the obs-* entry it was read from
    vox_mm,             \* atlas.py:122  one zooms triple per loaded volume
    skipped,            \* obs-* entries that printed "No label images detected - skipping"
    label_nos,          \* atlas.py:189-200
    atlas_files,        \* files written by label_stats_maps, in order
    loop,               \* loop indices: [oc, li, mode, outer, inner]
    acc,                \* result lists: [res, res_grp, metrics, intra_metrics_all,
                        \*                inter_metrics_all]
    pool,               \* the mp.Pool of the batch in flight
    npools,             \* pools created so far
    intra_csv,          \* intra_observer_metrics.csv: [written, rows]
    inter_csv,          \* inter_observer_metrics.csv: [written, rows]
    mask_a, mask_b,     \* similarity(): arguments
    sim_vox,            \* similarity(): vox_mm argument
    sim_res             \* similarity(): returned tuple (<< >> before the call)

vars == << pc, err, label_key, args_labels, cpu_count, n_listed, obs_names, labels,
           labels_src, vox_mm, skipped, label_nos, atlas_files, loop, acc, pool,
           npools, intra_csv, inter_csv, mask_a, mask_b, sim_vox, sim_res >>

mainVars == << err, label_key, args_labels, cpu_count, n_listed, obs_names, labels,
               labels_src, vox_mm, skipped, label_nos, atlas_files, loop, acc, pool,
               npools, intra_csv, inter_csv >>

simVars == << mask_a, mask_b, sim_vox, sim_res >>

-----------------------------------------------------------------------------
(* Bounds of the model.                                                    *)

\* Side of the cubic grid on which similarity() is explored.
GridN == 3
\* Most obs-* entries the glob lists.
MaxObs == 2
\* Most *.nii.gz images in one observer directory.
MaxTmp == 2
\* Largest host processing-unit count.
MaxCpu == 4

-----------------------------------------------------------------------------
(* Arithmetic helpers.                                                     *)

RECURSIVE GCD(_, _)
GCD(a, b) == IF b = 0 THEN a ELSE GCD(b, a % b)

\* The float n / d, d > 0, as a reduced fraction.
Frac(n, d) == LET g == GCD(n, d) IN << n \div g, d \div g >>

\* np.nan where a ratio is expected.
NaNFrac == << 0, 0 >>

SetMax(S) == CHOOSE m \in S : \A x \in S : x <= m
SetMin(S) == CHOOSE m \in S : \A x \in S : m <= x

\* np.sqrt(q) for an integer q >= 0.
Sqrt(q) == [root |-> q]

\* np.min / np.max over a nonempty set of square roots.
RootMin(S) == Sqrt(SetMin({ r.root : r \in S }))
RootMax(S) == Sqrt(SetMax({ r.root : r \in S }))

\* np.nan where a distance is expected.
NaNRoot == Sqrt(-1)

-----------------------------------------------------------------------------
(* Boolean 3D arrays.                                                      *)

Voxels(shape) == (0 .. shape[1] - 1) \X (0 .. shape[2] - 1) \X (0 .. shape[3] - 1)

Offsets == {-1, 0, 1} \X {-1, 0, 1} \X {-1, 0, 1}

Shift(v, d) == << v[1] + d[1], v[2] + d[2], v[3] + d[3] >>

\* An erosion for which a neighbour outside the array counts as True
\* (border_value=1).
binary_erosion_border1(x) ==
    [ shape |-> x.shape,
      on |-> { v \in x.on : \A d \in Offsets :
                 Shift(v, d) \in Voxels(x.shape) => Shift(v, d) \in x.on } ]

\* scipy.ndimage binary_erosion(x, structure=np.ones([3,3,3]), iterations=1):
\* border_value defaults to 0, so a neighbour outside the array counts as False.
binary_erosion(x) ==
    [ shape |-> x.shape,
      on |-> { v \in x.on : \A d \in Offsets : Shift(v, d) \in x.on } ]

\* atlas.py:578-595  np.logical_xor(x, x_eroded)
surface_voxels(x) ==
    LET x_eroded == binary_erosion(x)
    IN  [ shape |-> x.shape,
          on |-> (x.on \ x_eroded.on) \cup (x_eroded.on \ x.on) ]

\* atlas.py:563-566  one entry of sqrt(dx**2 + dy**2 + dz**2)
PointDist(a, b, vmm) ==
    LET dx == (a[1] - b[1]) * vmm[1]
        dy == (a[2] - b[2]) * vmm[2]
        dz == (a[3] - b[3]) * vmm[3]
    IN  Sqrt(dx * dx + dy * dy + dz * dz)

\* The symmetric Hausdorff distance: the larger of the two directed ones.
hausdorff_distance_symmetric(A, B, vmm) ==
    LET sA == surface_voxels(A)
        sB == surface_voxels(B)
        nA == Cardinality(sA.on)
        nB == Cardinality(sB.on)
    IN  IF nA > 0 /\ nB > 0
        THEN LET ab == [ a \in sA.on |->
                           RootMin({ PointDist(a, b, vmm) : b \in sB.on }) ]
                 ba == [ b \in sB.on |->
                           RootMin({ PointDist(a, b, vmm) : a \in sA.on }) ]
             IN  RootMax({ ab[a] : a \in sA.on } \cup { ba[b] : b \in sB.on })
        ELSE NaNRoot

\* atlas.py:525-575
hausdorff_distance(A, B, vmm) ==
    LET sA == surface_voxels(A)
        sB == surface_voxels(B)
        nA == Cardinality(sA.on)
        nB == Cardinality(sB.on)
    IN  IF nA > 0 /\ nB > 0
        THEN LET min_dr == [ a \in sA.on |->
                               RootMin({ PointDist(a, b, vmm) : b \in sB.on }) ]
             IN  RootMax({ min_dr[a] : a \in sA.on })
        ELSE NaNRoot

\* A similarity whose overlap lacks the factor 2.
similarity_half(ma, mb, vmm) ==
    LET na == Cardinality(ma.on)
        nb == Cardinality(mb.on)
    IN  IF na > 0 \/ nb > 0
        THEN [ dice |-> Frac(Cardinality(ma.on \cap mb.on), na + nb),
               haus |-> hausdorff_distance(ma, mb, vmm),
               na |-> na, nb |-> nb ]
        ELSE [ dice |-> NaNFrac, haus |-> NaNRoot, na |-> na, nb |-> nb ]

\* A similarity whose overlap is intersection over union.
similarity_jaccard(ma, mb, vmm) ==
    LET na == Cardinality(ma.on)
        nb == Cardinality(mb.on)
    IN  IF na > 0 \/ nb > 0
        THEN [ dice |-> Frac(Cardinality(ma.on \cap mb.on),
                             Cardinality(ma.on \cup mb.on)),
               haus |-> hausdorff_distance(ma, mb, vmm),
               na |-> na, nb |-> nb ]
        ELSE [ dice |-> NaNFrac, haus |-> NaNRoot, na |-> na, nb |-> nb ]

\* atlas.py:488-522
similarity(ma, mb, vmm) ==
    LET na == Cardinality(ma.on)
        nb == Cardinality(mb.on)
    IN  IF na > 0 \/ nb > 0
        THEN LET n_a_and_b == Cardinality(ma.on \cap mb.on)
             IN  [ dice |-> Frac(2 * n_a_and_b, na + nb),
                   haus |-> hausdorff_distance(ma, mb, vmm),
                   na |-> na, nb |-> nb ]
        ELSE [ dice |-> NaNFrac, haus |-> NaNRoot, na |-> na, nb |-> nb ]

-----------------------------------------------------------------------------
(* Inputs of main(): the files the globs find, the key, the command line.  *)

\* Grid of the label images read by main().
VolShape == << 2, 1, 1 >>

Vol(zooms, l0, l1) ==
    [ zooms |-> zooms, shape |-> VolShape,
      data |-> [ v \in Voxels(VolShape) |-> IF v[1] = 0 THEN l0 ELSE l1 ] ]

\* The label images an observer directory may hold: two spacings that are
\* isotropic and differ, one that is anisotropic; label codes 0..3.
ImageFiles ==
    { Vol(<<1, 1, 1>>, 1, 2), Vol(<<1, 1, 1>>, 1, 1),
      Vol(<<2, 2, 2>>, 3, 2), Vol(<<1, 1, 2>>, 0, 1) }

SeqsUpTo(S, n) == UNION { [ 1 .. k -> S ] : k \in 0 .. n }

\* One entry of glob("obs-*"): a plain file, or a directory with its images
\* in sorted order.
ObsEntries ==
    { [ isdir |-> FALSE, images |-> << >> ] } \cup
    { [ isdir |-> TRUE, images |-> ims ] : ims \in SeqsUpTo(ImageFiles, MaxTmp) }

\* Label keys: rows of [Index, Name].  A name is free text.
Keys ==
    { << [Index |-> 0, Name |-> "Clear Label"], [Index |-> 1, Name |-> "CeA"],
         [Index |-> 2, Name |-> "BLA"] >>,
      << [Index |-> 1, Name |-> "CeA"], [Index |-> 1, Name |-> "CeM"] >>,
      << [Index |-> 1, Name |-> "Unknown"], [Index |-> 2, Name |-> "BLA"] >> }

\* args.labels as parse_range returns it (sorted, distinct); << >> without -l.
ArgLabels == { << >>, << 1, 3 >>, << 0, 1, 2 >> }

-----------------------------------------------------------------------------
(* main(): loading (atlas.py:120-180).                                     *)

NoPool == [ size |-> 0, data_list |-> << >>, next |-> 0, running |-> << >>,
            slots |-> << >>, filled |-> {}, order |-> << >> ]

\* A position of starmap's result list that no task has filled yet.
Pending == [ dice |-> NaNFrac, haus |-> NaNRoot, na |-> -1, nb |-> -1 ]

\* A metrics file that has not been opened for writing.
Unwritten == [ written |-> FALSE, rows |-> << >> ]

MainInit ==
    /\ pc = "load"
    /\ err = "none"
    /\ label_key \in Keys
    /\ args_labels \in ArgLabels
    /\ cpu_count \in 1 .. MaxCpu
    /\ n_listed = 0
    /\ obs_names = << >>
    /\ labels = << >>
    /\ labels_src = << >>
    /\ vox_mm = << >>
    /\ skipped = {}
    /\ label_nos = << >>
    /\ atlas_files = << >>
    /\ loop = [ oc |-> 0, li |-> 1, mode |-> "intra", outer |-> 0, inner |-> 0 ]
    /\ acc = [ res |-> << >>, res_grp |-> << >>, metrics |-> << >>,
               intra_metrics_all |-> << >>, inter_metrics_all |-> << >> ]
    /\ pool = NoPool
    /\ npools = 0
    /\ intra_csv = Unwritten
    /\ inter_csv = Unwritten
    /\ mask_a = [ shape |-> VolShape, on |-> {} ]
    /\ mask_b = [ shape |-> VolShape, on |-> {} ]
    /\ sim_vox = << 1, 1, 1 >>
    /\ sim_res = << >>

\* The process ends: sys.exit(code) or an uncaught exception.
Exit(how) == pc' = "exited" /\ err' = how

\* A loader that treats an observer directory without images as fatal.
LoadObsDirFatal ==
    /\ pc = "load"
    /\ n_listed < MaxObs
    /\ \E entry \in ObsEntries :
         LET name == n_listed + 1
             obs_labels == [ i \in 1 .. Len(entry.images) |-> entry.images[i].data ]
             zooms == [ i \in 1 .. Len(entry.images) |-> entry.images[i].zooms ]
         IN  /\ n_listed' = name
             /\ IF entry.isdir
                THEN /\ obs_names' = Append(obs_names, name)
                     /\ vox_mm' = vox_mm \o zooms
                     /\ IF Len(obs_labels) > 0
                        THEN /\ labels' = Append(labels, obs_labels)
                             /\ labels_src' = Append(labels_src, name)
                             /\ UNCHANGED << skipped, pc, err >>
                        ELSE /\ skipped' = skipped \cup { name }
                             /\ Exit("exit1_no_images")
                             /\ UNCHANGED << labels, labels_src >>
                ELSE UNCHANGED << obs_names, vox_mm, labels, labels_src, skipped, pc, err >>
    /\ UNCHANGED << label_key, args_labels, cpu_count, label_nos, atlas_files,
                    loop, acc, pool, npools, intra_csv, inter_csv >>
    /\ UNCHANGED simVars

\* atlas.py:135-164  one pass of the loop over sorted(glob("obs-*")).
\* The entry's name is its position in the sorted listing.
LoadObsDir ==
    /\ pc = "load"
    /\ n_listed < MaxObs
    /\ \E entry \in ObsEntries :
         LET name == n_listed + 1
             obs_labels == [ i \in 1 .. Len(entry.images) |-> entry.images[i].data ]
             zooms == [ i \in 1 .. Len(entry.images) |-> entry.images[i].zooms ]
         IN  /\ n_listed' = name
             /\ IF entry.isdir
                THEN /\ obs_names' = Append(obs_names, name)
                     /\ vox_mm' = vox_mm \o zooms
                     /\ IF Len(obs_labels) > 0
                        THEN /\ labels' = Append(labels, obs_labels)
                             /\ labels_src' = Append(labels_src, name)
                             /\ skipped' = skipped
                        ELSE /\ skipped' = skipped \cup { name }
                             /\ UNCHANGED << labels, labels_src >>
                ELSE UNCHANGED << obs_names, vox_mm, labels, labels_src, skipped >>
    /\ UNCHANGED << pc, err, label_key, args_labels, cpu_count, label_nos, atlas_files,
                    loop, acc, pool, npools, intra_csv, inter_csv >>
    /\ UNCHANGED simVars

\* atlas.py:166-171  the listing is exhausted; "if not vox_mm.any()".
CheckEmpty ==
    /\ pc = "load"
    /\ IF Len(vox_mm) = 0
       THEN Exit("exit1_no_images")
       ELSE pc' = "check_dims" /\ err' = err
    /\ UNCHANGED << label_key, args_labels, cpu_count, n_listed, obs_names, labels,
                    labels_src, vox_mm, skipped, label_nos, atlas_files, loop, acc,
                    pool, npools, intra_csv, inter_csv >>
    /\ UNCHANGED simVars

\* np.std(vox_mm, axis=1): one value per image, the deviation among that
\* image's own three zooms; nonzero exactly when they are not all equal.
StdAxis1NonZero(z) == ~ (z[1] = z[2] /\ z[2] = z[3])

\* np.nonzero(np.std(vox_mm, axis=1)): the 0-based rows with a nonzero value.
NonZeroRows == { i - 1 : i \in { j \in 1 .. Len(vox_mm) : StdAxis1NonZero(vox_mm[j]) } }

\* atlas.py:174  any(np.nonzero(...)): any() of a 1-tuple holding the index
\* array, i.e. the truth value of that array: False when empty, the truth
\* of its element when it has one, ValueError when it has more.
DimsCheck ==
    CASE Cardinality(NonZeroRows) = 0 -> "pass"
      [] Cardinality(NonZeroRows) = 1 ->
            IF (CHOOSE i \in NonZeroRows : TRUE) # 0 THEN "differ" ELSE "pass"
      [] OTHER -> "ValueError"

\* atlas.py:173-180
CheckDims ==
    /\ pc = "check_dims"
    /\ CASE DimsCheck = "pass" -> pc' = "prepare" /\ err' = err
         [] DimsCheck = "differ" -> Exit("exit1_voxel_dims")
         [] OTHER -> Exit("crash_ValueError_truth_value")
    /\ UNCHANGED << label_key, args_labels, cpu_count, n_listed, obs_names, labels,
                    labels_src, vox_mm, skipped, label_nos, atlas_files, loop, acc,
                    pool, npools, intra_csv, inter_csv >>
    /\ UNCHANGED simVars

\* atlas.py:179  vox_mm = vox_mm[0]: the spacing handed to every comparison.
VoxFirst == vox_mm[1]

-----------------------------------------------------------------------------
(* main(): the labels of interest (atlas.py:182-200).                      *)

\* atlas.py:672-680  the last row whose Index matches decides the name.
get_label_name(label_idx, key) ==
    LET hits == { i \in 1 .. Len(key) : key[i].Index = label_idx }
    IN  IF hits = {} THEN "Unknown" ELSE key[SetMax(hits)].Name

RECURSIVE SortedSeq(_)
SortedSeq(S) ==
    IF S = {} THEN << >>
    ELSE LET m == SetMin(S) IN << m >> \o SortedSeq(S \ { m })

\* np.delete(seq, idx): seq without the (1-based) positions in idx.
RECURSIVE Delete(_, _, _)
Delete(seq, idx, i) ==
    IF i > Len(seq) THEN << >>
    ELSE (IF i \in idx THEN << >> ELSE << seq[i] >>) \o Delete(seq, idx, i + 1)

\* atlas.py:187-192
CandidateLabels ==
    IF Len(args_labels) > 0
    THEN args_labels
    ELSE SortedSeq({ labels[o][t][v] : o \in 1 .. Len(labels),
                                       t \in 1 .. Len(labels[1]),
                                       v \in Voxels(VolShape) } \ { 0 })

\* atlas.py:194-200
KnownLabels(cand, key) ==
    LET label_unknown ==
            { ll \in 1 .. Len(cand) : get_label_name(cand[ll], key) = "Unknown" }
    IN  Delete(cand, label_unknown, 1)

\* np.array(labels) is a 5D array only when every observer has as many
\* images as the first.
Rectangular == \A o \in 1 .. Len(labels) : Len(labels[o]) = Len(labels[1])

\* atlas.py:182-203.  A ragged nested list gives no 5D array: the run dies
\* with an exception before anything is written (np.unique, or the unpacking
\* of labels.shape at atlas.py:262).
PrepareLabels ==
    /\ pc = "prepare"
    /\ IF Rectangular
       THEN /\ label_nos' = KnownLabels(CandidateLabels, label_key)
            /\ pc' = "atlas"
            /\ err' = err
       ELSE /\ Exit("crash_ragged_labels")
            /\ label_nos' = label_nos
    /\ UNCHANGED << label_key, args_labels, cpu_count, n_listed, obs_names, labels,
                    labels_src, vox_mm, skipped, atlas_files, loop, acc, pool, npools,
                    intra_csv, inter_csv >>
    /\ UNCHANGED simVars

-----------------------------------------------------------------------------
(* label_stats_maps (atlas.py:237-308).                                    *)

\* labels == label_no for one image.
LabelMask(data, label_no) ==
    [ shape |-> VolShape, on |-> { v \in Voxels(VolShape) : data[v] = label_no } ]

\* A count of the images that carry any label at voxel v.
CountAtAnyLabel(obs_labels, label_no, v) ==
    Cardinality({ t \in 1 .. Len(obs_labels) : obs_labels[t][v] # 0 })

\* Number of an observer's images that carry label_no at voxel v.
CountAt(obs_labels, label_no, v) ==
    Cardinality({ t \in 1 .. Len(obs_labels) : obs_labels[t][v] = label_no })

\* atlas.py:288  np.mean(mask, axis=0) for every label of label_nos
LabelMeans(obs_labels) ==
    [ lc \in 1 .. Len(label_nos) |->
        [ v \in Voxels(VolShape) |->
            Frac(CountAt(obs_labels, label_nos[lc], v), Len(obs_labels)) ] ]

\* atlas.py:289  np.var(mask, axis=0): the mean of (mask - mean)^2
LabelVars(obs_labels) ==
    [ lc \in 1 .. Len(label_nos) |->
        [ v \in Voxels(VolShape) |->
            LET k == CountAt(obs_labels, label_nos[lc], v)
                n == Len(obs_labels)
            IN  Frac(k * (n - k) * (n - k) + (n - k) * k * k, n * n * n) ] ]

FracAdd(p, q) == Frac(p[1] * q[2] + q[1] * p[2], p[2] * q[2])

RECURSIVE FracSum(_, _)
FracSum(f, n) == IF n = 0 THEN << 0, 1 >> ELSE FracAdd(FracSum(f, n - 1), f[n])

FracDiv(p, n) == Frac(p[1], p[2] * n)

\* atlas.py:272-301  one pass of the loop over enumerate(obs_names):
\* labels[oc] raises IndexError when oc is past the observers of labels.
AtlasObserver ==
    /\ pc = "atlas"
    /\ loop.oc < Len(obs_names)
    /\ IF loop.oc >= Len(labels)
       THEN /\ Exit("crash_IndexError")
            /\ UNCHANGED << atlas_files, loop >>
       ELSE LET labels_obs == labels[loop.oc + 1]
            IN  /\ atlas_files' = atlas_files \o
                      << [ fname |-> << "label_mean", loop.oc >>,
                           data |-> LabelMeans(labels_obs) ],
                         [ fname |-> << "label_var", loop.oc >>,
                           data |-> LabelVars(labels_obs) ] >>
                /\ loop' = [ loop EXCEPT !.oc = loop.oc + 1 ]
                /\ UNCHANGED << pc, err >>
    /\ UNCHANGED << label_key, args_labels, cpu_count, n_listed, obs_names, labels,
                    labels_src, vox_mm, skipped, label_nos, acc, pool, npools,
                    intra_csv, inter_csv >>
    /\ UNCHANGED simVars

\* atlas.py:303-308  p = np.mean(label_means, axis=4); label_means holds
\* what the observer mean files hold.
AtlasGrand ==
    /\ pc = "atlas"
    /\ loop.oc = Len(obs_names)
    /\ LET n_obs == Len(labels)
           label_means == [ o \in 1 .. n_obs |-> LabelMeans(labels[o]) ]
           p == [ lc \in 1 .. Len(label_nos) |->
                    [ v \in Voxels(VolShape) |->
                        FracDiv(FracSum([ o \in 1 .. n_obs |-> label_means[o][lc][v] ],
                                        n_obs), n_obs) ] ]
       IN  atlas_files' = Append(atlas_files, [ fname |-> << "prob_atlas" >>, data |-> p ])
    /\ pc' = "metrics"
    /\ UNCHANGED << err, label_key, args_labels, cpu_count, n_listed, obs_names, labels,
                    labels_src, vox_mm, skipped, label_nos, loop, acc, pool, npools,
                    intra_csv, inter_csv >>
    /\ UNCHANGED simVars

-----------------------------------------------------------------------------
(* Similarity metrics (atlas.py:212-227, 311-418).                         *)
(*                                                                         *)
(* loop.li is the position in label_nos, loop.mode the function running,   *)
(* loop.outer the grouping index (obs in intra, tmp in inter) and          *)
(* loop.inner the row index (ta in intra, obs_a in inter), 0-based as in   *)
(* the source.  acc.res is res, acc.res_grp is obs_res / tmp_res and       *)
(* acc.metrics is intra_metrics / inter_metrics.                           *)

\* atlas.py:221  label_mask = (labels == label_no)
label_mask(label_no) ==
    [ o \in 1 .. Len(labels) |->
        [ t \in 1 .. Len(labels[o]) |-> LabelMask(labels[o][t], label_no) ] ]

nobs == Len(labels)
ntmp == Len(labels[1])

\* atlas.py:342-348
intra_data_list(lm, obs, ta) ==
    [ tb \in 1 .. ntmp |-> << lm[obs + 1][ta + 1], lm[obs + 1][tb], VoxFirst >> ]

\* A batch builder that pairs the masks the other way round.
inter_data_list_swapped(lm, tmp, obs_a) ==
    [ obs_b \in 1 .. nobs |-> << lm[obs_b][tmp + 1], lm[obs_a + 1][tmp + 1], VoxFirst >> ]

\* atlas.py:396-404
inter_data_list(lm, tmp, obs_a) ==
    [ obs_b \in 1 .. nobs |-> << lm[obs_a + 1][tmp + 1], lm[obs_b][tmp + 1], VoxFirst >> ]

\* The data_list of the batch the loops have reached.
CurrentDataList ==
    LET lm == label_mask(label_nos[loop.li])
    IN  IF loop.mode = "intra"
        THEN intra_data_list(lm, loop.outer, loop.inner)
        ELSE inter_data_list(lm, loop.outer, loop.inner)

\* atlas.py:351, 407  mp.Pool(mp.cpu_count()-2)
PoolSize == cpu_count - 2

\* A pool that is created for the first row of a grouping value and used
\* again for its other rows.
PoolCreateReused ==
    /\ pc = "metrics"
    /\ loop.li <= Len(label_nos)
    /\ pool.size = 0
    /\ IF PoolSize < 1
       THEN /\ Exit("crash_ValueError_pool_size")
            /\ UNCHANGED << pool, npools >>
       ELSE /\ pool' = [ size |-> PoolSize,
                         data_list |-> CurrentDataList,
                         next |-> 1,
                         running |-> [ w \in 1 .. PoolSize |-> 0 ],
                         slots |-> [ i \in 1 .. Len(CurrentDataList) |-> Pending ],
                         filled |-> {},
                         order |-> << >> ]
            /\ npools' = IF loop.inner = 0 THEN npools + 1 ELSE npools
            /\ UNCHANGED << pc, err >>
    /\ UNCHANGED << label_key, args_labels, cpu_count, n_listed, obs_names, labels,
                    labels_src, vox_mm, skipped, label_nos, atlas_files, loop, acc,
                    intra_csv, inter_csv >>
    /\ UNCHANGED simVars

\* atlas.py:350-352, 406-408  entering the with block: the pool is created
\* (Pool raises ValueError for fewer than one process) and starmap queues
\* one task per element of data_list, in order.
PoolCreate ==
    /\ pc = "metrics"
    /\ loop.li <= Len(label_nos)
    /\ pool.size = 0
    /\ IF PoolSize < 1
       THEN /\ Exit("crash_ValueError_pool_size")
            /\ UNCHANGED << pool, npools >>
       ELSE /\ pool' = [ size |-> PoolSize,
                         data_list |-> CurrentDataList,
                         next |-> 1,
                         running |-> [ w \in 1 .. PoolSize |-> 0 ],
                         slots |-> [ i \in 1 .. Len(CurrentDataList) |-> Pending ],
                         filled |-> {},
                         order |-> << >> ]
            /\ npools' = npools + 1
            /\ UNCHANGED << pc, err >>
    /\ UNCHANGED << label_key, args_labels, cpu_count, n_listed, obs_names, labels,
                    labels_src, vox_mm, skipped, label_nos, atlas_files, loop, acc,
                    intra_csv, inter_csv >>
    /\ UNCHANGED simVars

\* An idle worker process takes the oldest queued task.
WorkerTake(w) ==
    /\ pc = "metrics"
    /\ pool.size > 0
    /\ pool.running[w] = 0
    /\ pool.next <= Len(pool.data_list)
    /\ pool' = [ pool EXCEPT !.running[w] = pool.next, !.next = pool.next + 1 ]
    /\ UNCHANGED << pc, err, label_key, args_labels, cpu_count, n_listed, obs_names,
                    labels, labels_src, vox_mm, skipped, label_nos, atlas_files, loop,
                    acc, npools, intra_csv, inter_csv >>
    /\ UNCHANGED simVars

\* A result list filled in the order in which the tasks complete.
StoreResultAsCompleted(slots, order, i, r) == [ slots EXCEPT ![Len(order) + 1] = r ]

\* starmap keeps the result of task i at position i of its result list.
StoreResult(slots, order, i, r) == [ slots EXCEPT ![i] = r ]

\* A worker returns similarity(*data_list[i]) for the task i it holds.
WorkerFinish(w) ==
    /\ pc = "metrics"
    /\ pool.size > 0
    /\ pool.running[w] # 0
    /\ LET i == pool.running[w]
           t == pool.data_list[i]
       IN  pool' = [ pool EXCEPT
                       !.running[w] = 0,
                       !.slots = StoreResult(pool.slots, pool.order, i,
                                             similarity(t[1], t[2], t[3])),
                       !.filled = pool.filled \cup { i },
                       !.order = Append(pool.order, i) ]
    /\ UNCHANGED << pc, err, label_key, args_labels, cpu_count, n_listed, obs_names,
                    labels, labels_src, vox_mm, skipped, label_nos, atlas_files, loop,
                    acc, npools, intra_csv, inter_csv >>
    /\ UNCHANGED simVars

\* A failure that is noted while the batch goes on with an undefined result.
WorkerRaiseSwallowed(w) ==
    /\ pc = "metrics"
    /\ pool.size > 0
    /\ pool.running[w] # 0
    /\ LET i == pool.running[w]
       IN  pool' = [ pool EXCEPT
                       !.running[w] = 0,
                       !.slots[i] = [ dice |-> NaNFrac, haus |-> NaNRoot, na |-> 0, nb |-> 0 ],
                       !.filled = pool.filled \cup { i },
                       !.order = Append(pool.order, i) ]
    /\ err' = "crash_task_raised"
    /\ UNCHANGED << pc, label_key, args_labels, cpu_count, n_listed, obs_names, labels,
                    labels_src, vox_mm, skipped, label_nos, atlas_files, loop, acc,
                    npools, intra_csv, inter_csv >>
    /\ UNCHANGED simVars

\* The task a worker holds raises: starmap re-raises it in main(), the with
\* block terminates the pool, and nothing catches the exception.
WorkerRaise(w) ==
    /\ pc = "metrics"
    /\ pool.size > 0
    /\ pool.running[w] # 0
    /\ pool' = NoPool
    /\ Exit("crash_task_raised")
    /\ UNCHANGED << label_key, args_labels, cpu_count, n_listed, obs_names, labels,
                    labels_src, vox_mm, skipped, label_nos, atlas_files, loop, acc,
                    npools, intra_csv, inter_csv >>
    /\ UNCHANGED simVars

\* Sizes of the two loops of the function running.
NOuter == IF loop.mode = "intra" THEN nobs ELSE ntmp
NInner == IF loop.mode = "intra" THEN ntmp ELSE nobs

\* atlas.py:352-362, 408-418, 224-227  starmap returns res once every task
\* has a result and the with block ends the pool; res is appended to the
\* row list, and each list that its loop's end completes is appended to
\* the list above it.
StarmapReturn ==
    /\ pc = "metrics"
    /\ pool.size > 0
    /\ pool.filled = 1 .. Len(pool.data_list)
    /\ LET res == [ i \in 1 .. Len(pool.data_list) |-> pool.slots[i] ]
           grp == Append(acc.res_grp, res)
           rowsDone == loop.inner + 1 = NInner
           met == IF rowsDone THEN Append(acc.metrics, grp) ELSE acc.metrics
           funDone == rowsDone /\ loop.outer + 1 = NOuter
       IN  /\ acc' = [ res |-> res,
                       res_grp |-> IF rowsDone THEN << >> ELSE grp,
                       metrics |-> IF funDone THEN << >> ELSE met,
                       intra_metrics_all |->
                           IF funDone /\ loop.mode = "intra"
                           THEN Append(acc.intra_metrics_all, met)
                           ELSE acc.intra_metrics_all,
                       inter_metrics_all |->
                           IF funDone /\ loop.mode = "inter"
                           THEN Append(acc.inter_metrics_all, met)
                           ELSE acc.inter_metrics_all ]
           /\ loop' = [ loop EXCEPT
                          !.inner = IF rowsDone THEN 0 ELSE loop.inner + 1,
                          !.outer = IF funDone THEN 0
                                    ELSE IF rowsDone THEN loop.outer + 1 ELSE loop.outer,
                          !.mode = IF funDone
                                   THEN (IF loop.mode = "intra" THEN "inter" ELSE "intra")
                                   ELSE loop.mode,
                          !.li = IF funDone /\ loop.mode = "inter"
                                 THEN loop.li + 1 ELSE loop.li ]
    /\ pool' = NoPool
    /\ UNCHANGED << pc, err, label_key, args_labels, cpu_count, n_listed, obs_names,
                    labels, labels_src, vox_mm, skipped, label_nos, atlas_files, npools,
                    intra_csv, inter_csv >>
    /\ UNCHANGED simVars

-----------------------------------------------------------------------------
(* Writing the metrics (atlas.py:229-234, 421-485).                        *)

\* The rows written for metrics_all[idx][i][a][b], in the order of the four
\* nested enumerate loops; the first three columns after the label are the
\* 0-based loop indices.
MetricRows(metrics_all) ==
    IF Len(metrics_all) = 0 THEN << >>
    ELSE LET d1 == Len(metrics_all[1])
             d2 == Len(metrics_all[1][1])
             d3 == Len(metrics_all[1][1][1])
         IN  [ r \in 1 .. Len(metrics_all) * d1 * d2 * d3 |->
                 LET k == r - 1
                     idx == k \div (d1 * d2 * d3)
                     i == (k \div (d2 * d3)) % d1
                     a == (k \div d3) % d2
                     b == k % d3
                     m == metrics_all[idx + 1][i + 1][a + 1][b + 1]
                 IN  [ labelName |-> get_label_name(label_nos[idx + 1], label_key),
                       labelNo |-> label_nos[idx + 1],
                       grp |-> i, A |-> a, B |-> b,
                       dice |-> m.dice, hausdorff |-> m.haus,
                       nA |-> m.na, nB |-> m.nb ] ]

\* atlas.py:229-230  the label loop is over; save_intra_metrics
SaveIntraMetrics ==
    /\ pc = "metrics"
    /\ loop.li > Len(label_nos)
    /\ intra_csv' = [ written |-> TRUE, rows |-> MetricRows(acc.intra_metrics_all) ]
    /\ pc' = "save_inter"
    /\ UNCHANGED << err, label_key, args_labels, cpu_count, n_listed, obs_names, labels,
                    labels_src, vox_mm, skipped, label_nos, atlas_files, loop, acc,
                    pool, npools, inter_csv >>
    /\ UNCHANGED simVars

\* atlas.py:231-234  save_inter_metrics; sys.exit(0)
SaveInterMetrics ==
    /\ pc = "save_inter"
    /\ inter_csv' = [ written |-> TRUE, rows |-> MetricRows(acc.inter_metrics_all) ]
    /\ Exit("exit0")
    /\ UNCHANGED << label_key, args_labels, cpu_count, n_listed, obs_names, labels,
                    labels_src, vox_mm, skipped, label_nos, atlas_files, loop, acc,
                    pool, npools, intra_csv >>
    /\ UNCHANGED simVars

Next ==
    \/ LoadObsDir
    \/ CheckEmpty
    \/ CheckDims
    \/ PrepareLabels
    \/ AtlasObserver
    \/ AtlasGrand
    \/ PoolCreate
    \/ \E w \in 1 .. pool.size : WorkerTake(w)
    \/ \E w \in 1 .. pool.size : WorkerFinish(w)
    \/ \E w \in 1 .. pool.size : WorkerRaise(w)
    \/ StarmapReturn
    \/ SaveIntraMetrics
    \/ SaveInterMetrics

Spec == MainInit /\ [][Next]_vars

-----------------------------------------------------------------------------
(* similarity() on its own: every pair of masks of a family on a cubic     *)
(* grid, under several voxel spacings.                                     *)

SimShape == << GridN, GridN, GridN >>

Box(lo, hi) ==
    [ shape |-> SimShape,
      on |-> { v \in Voxels(SimShape) : \A i \in 1 .. 3 : lo[i] <= v[i] /\ v[i] <= hi[i] } ]

Without(m, S) == [ shape |-> m.shape, on |-> m.on \ S ]

FullGrid == Box(<< 0, 0, 0 >>, << GridN - 1, GridN - 1, GridN - 1 >>)

\* The masks: the empty one, every axis-aligned box (single voxels, slabs,
\* the whole grid, boxes touching the border or not), the whole grid with
\* its centre or a corner missing, and two opposite corners.
SimMasks ==
    { Box(lo, hi) : lo \in Voxels(SimShape), hi \in Voxels(SimShape) } \cup
    { Without(FullGrid, { << 1, 1, 1 >> }),
      Without(FullGrid, { << 0, 0, 0 >> }),
      [ shape |-> SimShape,
        on |-> { << 0, 0, 0 >>, << GridN - 1, GridN - 1, GridN - 1 >> } ] }

SimZooms == { << 1, 1, 1 >>, << 1, 2, 3 >> }

SimInit ==
    /\ pc = "sim_call"
    /\ mask_a \in SimMasks
    /\ mask_b \in SimMasks
    /\ sim_vox \in SimZooms
    /\ sim_res = << >>
    /\ err = "none"
    /\ label_key = << >>
    /\ args_labels = << >>
    /\ cpu_count = 1
    /\ n_listed = 0
    /\ obs_names = << >>
    /\ labels = << >>
    /\ labels_src = << >>
    /\ vox_mm = << >>
    /\ skipped = {}
    /\ label_nos = << >>
    /\ atlas_files = << >>
    /\ loop = [ oc |-> 0, li |-> 1, mode |-> "intra", outer |-> 0, inner |-> 0 ]
    /\ acc = [ res |-> << >>, res_grp |-> << >>, metrics |-> << >>,
               intra_metrics_all |-> << >>, inter_metrics_all |-> << >> ]
    /\ pool = NoPool
    /\ npools = 0
    /\ intra_csv = Unwritten
    /\ inter_csv = Unwritten

\* One call of similarity(mask_a, mask_b, vox_mm) (atlas.py:488-522).
SimilarityCall ==
    /\ pc = "sim_call"
    /\ sim_res' = similarity(mask_a, mask_b, sim_vox)
    /\ pc' = "sim_done"
    /\ UNCHANGED << mask_a, mask_b, sim_vox >>
    /\ UNCHANGED mainVars

SimNext == SimilarityCall

SpecSim == SimInit /\ [][SimNext]_vars

-----------------------------------------------------------------------------
(* Properties of loading.                                                  *)

\* The run has left the checks of atlas.py:166-180 behind.
PastLoading == pc \in { "prepare", "atlas", "metrics", "save_inter" }
                 \/ (pc = "exited" /\ err \notin { "exit1_no_images", "exit1_voxel_dims",
                                                  "crash_ValueError_truth_value" })

\* The check of atlas.py:174 ended the run.
FailedOnDims == pc = "exited" /\ err \in { "exit1_voxel_dims", "crash_ValueError_truth_value" }

\* Some loaded image's voxel spacing differs from the first loaded image's.
SpacingDiffers == \E i \in 1 .. Len(vox_mm) : vox_mm[i] # vox_mm[1]

\* C1: once the spacing check has run, the run has ended on it (before any
\* atlas or metric computation) exactly when some loaded image's voxel
\* spacing differs from the first loaded image's.
C1_SpacingCheckIsFatalIffDiffers ==
    (PastLoading \/ FailedOnDims) => (FailedOnDims <=> SpacingDiffers)

\* C2, as stated: an observer directory without images makes loading fail;
\* the run never gets past loading and computes no atlas map.
C2_EmptyObserverIsFatal ==
    skipped # {} => (~ PastLoading /\ atlas_files = << >>)

Range(seq) == { seq[i] : i \in 1 .. Len(seq) }

\* C2, amended: an observer directory without images does not make loading
\* fail.  It is skipped: its name stays in obs_names, labels gets no entry
\* for it, and loading ends the run as empty only when no image at all was
\* loaded.
C2_EmptyObserverIsSkipped ==
    /\ skipped \subseteq Range(obs_names)
    /\ skipped \cap Range(labels_src) = {}
    /\ Len(labels) = Len(obs_names) - Cardinality(skipped)
    /\ (pc # "load" => (err = "exit1_no_images" <=> Len(vox_mm) = 0))
    /\ (pc = "load" => err = "none")

\* C2 witness: an observer was skipped and atlas maps were still written.
C2_Witness == skipped # {} /\ Len(atlas_files) > 0 /\ Len(labels) > 0

-----------------------------------------------------------------------------
(* Properties of the comparison loops.                                     *)

\* compare(A, B) for two images of the loaded set and one label.
Compare(label_no, oa, ta, ob, tb) ==
    similarity(LabelMask(labels[oa][ta], label_no), LabelMask(labels[ob][tb], label_no),
               vox_mm[1])

\* C3: for every label whose comparisons are complete, the intra-observer
\* result is a dense nobs x ntmp x ntmp list whose entry [o][a][b] compares
\* observer o's templates a and b, and the inter-observer result is a dense
\* ntmp x nobs x nobs list whose entry [t][a][b] compares observers a and b
\* on template t; no entry is missing and none is extra.
C3_DenseTensors ==
    /\ \A idx \in 1 .. Len(acc.intra_metrics_all) :
         LET T == acc.intra_metrics_all[idx]
         IN  /\ DOMAIN T = 1 .. Len(labels)
             /\ \A o \in DOMAIN T :
                  /\ DOMAIN T[o] = 1 .. Len(labels[o])
                  /\ \A a \in DOMAIN T[o] :
                       /\ DOMAIN T[o][a] = 1 .. Len(labels[o])
                       /\ \A b \in DOMAIN T[o][a] :
                            T[o][a][b] = Compare(label_nos[idx], o, a, o, b)
    /\ \A idx \in 1 .. Len(acc.inter_metrics_all) :
         LET T == acc.inter_metrics_all[idx]
         IN  /\ DOMAIN T = 1 .. Len(labels[1])
             /\ \A t \in DOMAIN T :
                  /\ DOMAIN T[t] = 1 .. Len(labels)
                  /\ \A a \in DOMAIN T[t] :
                       /\ DOMAIN T[t][a] = 1 .. Len(labels)
                       /\ \A b \in DOMAIN T[t][a] :
                            T[t][a][b] = Compare(label_nos[idx], a, t, b, t)

\* C3 witness: a run that ended cleanly with two observers of two templates
\* each, whose inter-observer list holds a comparison of two masks of
\* different sizes.
C3_Witness ==
    /\ pc = "exited" /\ err = "exit0"
    /\ Len(labels) = 2 /\ Len(labels[1]) = 2
    /\ Len(acc.intra_metrics_all) >= 1
    /\ \E idx \in 1 .. Len(acc.inter_metrics_all) :
         acc.inter_metrics_all[idx][1][1][2].na # acc.inter_metrics_all[idx][1][1][2].nb

\* C8: when starmap returns, the i-th element of res is similarity applied
\* to the i-th element of the data_list that was submitted, whatever the
\* order in which the workers took and completed the tasks.
C8_ResultsInSubmissionOrder ==
    [][ (pool.size > 0 /\ pool'.size = 0 /\ pc' = "metrics")
          => acc'.res = [ i \in 1 .. Len(pool.data_list) |->
                            similarity(pool.data_list[i][1], pool.data_list[i][2],
                                       pool.data_list[i][3]) ] ]_vars

\* C8 witness: a batch of two tasks that completed in the reverse of the
\* order of submission, with different results, and is about to return.
C8_Witness ==
    /\ pool.size = 2
    /\ pool.order = << 2, 1 >>
    /\ pool.filled = { 1, 2 }
    /\ pool.slots[1] # pool.slots[2]

\* C9: once a comparison task has raised, the run is over and neither
\* metrics file has been written, so no result of that batch or of an
\* earlier one has been emitted.
C9_TaskFailureWritesNoMetrics ==
    err = "crash_task_raised"
      => (pc = "exited" /\ ~ intra_csv.written /\ ~ inter_csv.written)

\* C9 witness: a task raised after the comparisons of an earlier label had
\* been completed and kept.
C9_Witness ==
    /\ err = "crash_task_raised"
    /\ Len(acc.intra_metrics_all) >= 1
    /\ Len(acc.inter_metrics_all) >= 1

-----------------------------------------------------------------------------
(* Properties of the label list.                                           *)

InKey(code) == \E i \in 1 .. Len(label_key) : label_key[i].Index = code

\* C10: a code that is not in the key is looked up as "Unknown", and once
\* the label list is filtered it holds exactly the candidate codes that are
\* in the key, in their original order.
C10_KnownLabelsOnly ==
    /\ \A code \in 0 .. 3 : ~ InKey(code) => get_label_name(code, label_key) = "Unknown"
    /\ pc \in { "atlas", "metrics", "save_inter" }
         => label_nos = SelectSeq(CandidateLabels, InKey)

-----------------------------------------------------------------------------
(* Properties of similarity().                                             *)

Returned == pc = "sim_done"

\* C4: a mask compared with itself has overlap 1.0 and boundary distance
\* 0.0 when it is not empty, whatever its shape (the whole grid included),
\* and NaN for both when it is empty.
C4_SelfComparison ==
    (Returned /\ mask_a = mask_b)
      => IF mask_a.on # {}
         THEN sim_res.dice = << 1, 1 >> /\ sim_res.haus = Sqrt(0)
         ELSE sim_res.dice = NaNFrac /\ sim_res.haus = NaNRoot

\* C4 witness: the mask that fills the grid, compared with itself.
C4_Witness ==
    Returned /\ mask_a = mask_b /\ mask_a.on = Voxels(SimShape) /\ sim_res.haus = Sqrt(0)

\* C5: for two masks that are not both empty the overlap has the value
\* 2*|A and B| / (countA + countB), lies in [0,1], is 1.0 exactly when the
\* masks are identical and 0.0 exactly when they are disjoint.
C5_Dice ==
    (Returned /\ (mask_a.on # {} \/ mask_b.on # {}))
      => LET d == sim_res.dice
             both == Cardinality(mask_a.on \cap mask_b.on)
             total == Cardinality(mask_a.on) + Cardinality(mask_b.on)
         IN  /\ d[2] > 0
             /\ d[1] * total = 2 * both * d[2]
             /\ 0 <= d[1] /\ d[1] <= d[2]
             /\ (d = << 1, 1 >> <=> mask_a.on = mask_b.on)
             /\ (d = << 0, 1 >> <=> mask_a.on \cap mask_b.on = {})

\* C5 witness: two different masks that overlap.
C5_Witness ==
    /\ Returned
    /\ mask_a.on \cap mask_b.on # {}
    /\ mask_a.on # mask_b.on
    /\ sim_res.dice[1] > 0 /\ sim_res.dice[1] < sim_res.dice[2]

\* Square of the physical distance between two voxels.
DistSq(a, b) ==
    ((a[1] - b[1]) * sim_vox[1]) * ((a[1] - b[1]) * sim_vox[1])
    + ((a[2] - b[2]) * sim_vox[2]) * ((a[2] - b[2]) * sim_vox[2])
    + ((a[3] - b[3]) * sim_vox[3]) * ((a[3] - b[3]) * sim_vox[3])

SurfA == surface_voxels(mask_a).on
SurfB == surface_voxels(mask_b).on

\* C6: when both surfaces are nonempty the boundary distance h is the
\* directed distance from A to B: every surface voxel of A has a surface
\* voxel of B within h, and some surface voxel of A has none nearer than h.
\* The direction from B to A plays no part.
C6_DirectedHausdorff ==
    (Returned /\ SurfA # {} /\ SurfB # {})
      => LET h == sim_res.haus.root
         IN  /\ \A a \in SurfA : \E b \in SurfB : DistSq(a, b) <= h
             /\ \E a \in SurfA : \A b \in SurfB : DistSq(a, b) >= h

\* C6 witness: a pair for which the direction from B to A is longer than
\* the distance returned, under a spacing that differs along the axes.
C6_Witness ==
    /\ Returned /\ SurfA # {} /\ SurfB # {}
    /\ sim_vox = << 1, 2, 3 >>
    /\ sim_res.haus.root > 0
    /\ \E b \in SurfB : \A a \in SurfA : DistSq(a, b) > sim_res.haus.root

\* C7, as stated: the surface is a subset of the mask, and when the mask
\* is empty or is the entire grid the surface is empty and the boundary
\* distance is NaN.
C7_EmptyOrFullGridHasNoSurface ==
    Returned
      => /\ SurfA \subseteq mask_a.on
         /\ (mask_a.on = {} \/ mask_a.on = Voxels(SimShape))
              => (SurfA = {} /\ sim_res.haus = NaNRoot)

\* C7, amended: the surface is the set of mask voxels that have, among
\* their 26 neighbours, one that is outside the mask or outside the grid (a
\* subset of the mask); it is empty only when the mask is empty, so the
\* mask that is the entire grid has a surface, and the boundary distance is
\* NaN exactly when one of the two masks is empty.
C7_SurfaceEmptyOnlyForEmptyMask ==
    Returned
      => /\ SurfA \subseteq mask_a.on
         /\ SurfA = { v \in mask_a.on : \E d \in Offsets : Shift(v, d) \notin mask_a.on }
         /\ (SurfA = {} <=> mask_a.on = {})
         /\ (sim_res.haus = NaNRoot <=> (mask_a.on = {} \/ mask_b.on = {}))

\* C7 witness: the mask that is the entire grid has its border voxels as
\* surface, fewer than the mask, and a boundary distance that is a number.
C7_Witness ==
    /\ Returned
    /\ mask_a.on = Voxels(SimShape)
    /\ SurfA # {} /\ SurfA # mask_a.on
    /\ mask_b.on # {}
    /\ sim_res.haus # NaNRoot

-----------------------------------------------------------------------------
(* Properties of the atlas maps.                                           *)

\* Number of the templates of the o-th loaded observer whose voxel v carries
\* the code at position lc of label_nos.
TemplatesWith(o, lc, v) ==
    Cardinality({ t \in 1 .. Len(labels[o]) : labels[o][t][v] = label_nos[lc] })

\* The fraction f has the value p / q.
HasValue(f, p, q) == f[2] > 0 /\ f[1] * q = p * f[2]

\* C11: in every map written, for every label, observer and voxel with the
\* label in exactly k of the observer's n templates, the mean map holds k/n
\* and the variance map (k/n)(1 - k/n); the grand atlas holds the mean of
\* the observers' means.  k counts the templates that carry that label and
\* no other.
C11_MeanAndVariance ==
    \A i \in 1 .. Len(atlas_files) :
      LET f == atlas_files[i]
      IN  /\ DOMAIN f.data = 1 .. Len(label_nos)
          /\ \A lc \in 1 .. Len(label_nos) : \A v \in Voxels(VolShape) :
               CASE f.fname[1] = "label_mean" ->
                      LET o == f.fname[2] + 1
                          k == TemplatesWith(o, lc, v)
                          n == Len(labels[o])
                      IN  HasValue(f.data[lc][v], k, n)
                 [] f.fname[1] = "label_var" ->
                      LET o == f.fname[2] + 1
                          k == TemplatesWith(o, lc, v)
                          n == Len(labels[o])
                      IN  HasValue(f.data[lc][v], k * (n - k), n * n)
                 [] OTHER ->
                      LET n == Len(labels[1])
                          ksum == Cardinality({ ot \in (1 .. Len(labels)) \X (1 .. n) :
                                     labels[ot[1]][ot[2]][v] = label_nos[lc] })
                      IN  HasValue(f.data[lc][v], ksum, n * Len(labels))

\* C11 witness: all maps are written for two observers; at some voxel a
\* label is in one of the first observer's two templates, so that the mean
\* is 1/2 and the variance 1/4, the voxel carries another label in the other
\* template, and the grand atlas value differs from the observer's mean.
C11_Witness ==
    /\ Len(atlas_files) = 5
    /\ Len(labels) = 2 /\ Len(labels[1]) = 2
    /\ \E lc \in 1 .. Len(label_nos) : \E v \in Voxels(VolShape) :
         /\ atlas_files[1].data[lc][v] = << 1, 2 >>
         /\ atlas_files[2].data[lc][v] = << 1, 4 >>
         /\ atlas_files[5].data[lc][v] # << 1, 2 >>
         /\ \A t \in 1 .. 2 : labels[1][t][v] # 0

-----------------------------------------------------------------------------
(* Properties of the worker pools.                                         *)

\* Batches whose starmap has returned, from the position of the loops.
BatchesReturned ==
    (loop.li - 1) * 2 * nobs * ntmp
    + (IF loop.mode = "inter" THEN nobs * ntmp ELSE 0)
    + loop.outer * NInner + loop.inner

\* The run ended cleanly.
CleanExit == pc = "exited" /\ err = "exit0"

\* C12, as stated: one pool is created per observer in intra mode and one
\* per template in inter mode, so a clean run has created nobs + ntmp pools
\* for each label; a pool holds only tasks of the batch the loops are at.
C12_OnePoolPerGroupingValue ==
    /\ CleanExit => npools = Len(label_nos) * (nobs + ntmp)
    /\ (pc = "metrics" /\ pool.size > 0) => pool.data_list = CurrentDataList

\* C12, amended: one pool is created per batch, a batch being one row of the
\* comparison (an observer and a template A in intra mode, a template and
\* an observer A in inter mode): its pool is ended when its starmap returns
\* and before the next pool is created, so the pools created are the
\* batches returned plus the one in flight, nobs * ntmp for each mode and
\* label, and a pool holds only tasks of the batch the loops are at.
C12_OnePoolPerBatch ==
    /\ pc = "metrics"
         => /\ npools = BatchesReturned + (IF pool.size > 0 THEN 1 ELSE 0)
            /\ pool.size > 0
                 => /\ pool.data_list = CurrentDataList
                    /\ \A w \in 1 .. pool.size :
                         pool.running[w] \in 0 .. Len(pool.data_list)
    /\ pool.size = 0 => pool.running = << >>
    /\ CleanExit => npools = Len(label_nos) * 2 * nobs * ntmp

\* C12 witness: a clean run over one observer with two templates and at
\* least one label: more pools than grouping values.
C12_Witness ==
    /\ CleanExit
    /\ Len(labels) = 1 /\ Len(labels[1]) = 2
    /\ Len(label_nos) >= 1
    /\ npools = Len(label_nos) * 4

\* C13: for every processing-unit count of one or more, a batch about to be
\* run gets a pool of at least one worker: creating the pool never fails.
C13_PoolHasAWorker ==
    /\ (pc = "metrics" /\ loop.li <= Len(label_nos)) => PoolSize >= 1
    /\ err # "crash_ValueError_pool_size"

-----------------------------------------------------------------------------
(* Properties of the observer names.                                       *)

\* C14: after loading, the observer names and the per-observer volume
\* sequences have the same length and order: the i-th name is the name of
\* the directory the i-th volume sequence was loaded from.
C14_NamesMatchVolumes ==
    PastLoading
      => /\ Len(obs_names) = Len(labels)
         /\ \A i \in 1 .. Len(labels) : obs_names[i] = labels_src[i]

====
